---- MODULE Spec2Model ----
(***************************************************************************)
(* Model of the quiz session engine of crablit (src/src/lib.rs):           *)
(* `run` (the repetition controller) and `question` (one pass of the       *)
(* session loop with its command interpreter).                             *)
(*                                                                         *)
(* Text is modelled as sequences of one-character strings, so that         *)
(* trim(), starts_with() and string equality are computed, not assumed.    *)
(* Card (cards.rs), Lok (enums.rs) and state (state.rs) are not in src/;   *)
(* the Card operations are modelled from the design document (spec.md),    *)
(* the two state functions as calls that return Ok or Err.                 *)
(***************************************************************************)
EXTENDS Integers, Sequences, FiniteSets, TLC

\* ---------------------------------------------------------------- bounds
\* number of cards in the deck (Spec); SpecLong has one card more
NumCards == 2
\* cap on a mastery counter (incr is unbounded in the program)
MaxCnt == 3
\* longest string given to `hint` (SpecHint)
MaxHintLen == 4

\* mastery threshold: counter >= Threshold is Done
Threshold == 2

\* ------------------------------------------------------------------ text
Digits == <<"1", "2", "3", "4", "5", "6", "7", "8", "9">>

\* term and definition of the k-th card of the deck file
TermOf(k) == <<"t", Digits[k]>>
DefOf(k) == <<"d", Digits[k]>>

IsSpace(ch) == ch = " "

RECURSIVE TrimStart(_)
TrimStart(s) ==
  IF s = <<>> THEN s
  ELSE IF IsSpace(Head(s)) THEN TrimStart(Tail(s)) ELSE s

RECURSIVE TrimEnd(_)
TrimEnd(s) ==
  IF s = <<>> THEN s
  ELSE IF IsSpace(s[Len(s)]) THEN TrimEnd(SubSeq(s, 1, Len(s) - 1)) ELSE s

\* str::trim
Trim(s) == TrimEnd(TrimStart(s))

\* str::starts_with
StartsWith(s, p) == Len(s) >= Len(p) /\ SubSeq(s, 1, Len(p)) = p

\* the command words of the match in `question`
CmdQ == <<":", "q">>
CmdQuit == <<":", "q", "u", "i", "t">>
CmdExit == <<":", "e", "x", "i", "t">>
CmdH == <<":", "h">>
CmdHelp == <<":", "h", "e", "l", "p">>
CmdHint == <<":", "h", "i", "n", "t">>
CmdW == <<":", "w">>
CmdWrite == <<":", "w", "r", "i", "t", "e">>
CmdSave == <<":", "s", "a", "v", "e">>
CmdWq == <<":", "w", "q">>
CmdTypo == <<":", "t", "y", "p", "o">>
CmdSkip == <<":", "s", "k", "i", "p">>
CmdRevise == <<":", "r", "e", "v", "i", "s", "e">>
CmdF == <<":", "f">>
CmdFlash == <<":", "f", "l", "a", "s", "h">>
CmdN == <<":", "n">>
CmdNum == <<":", "n", "u", "m">>
CmdTogo == <<":", "t", "o", "g", "o">>

QuitCmds == {CmdQ, CmdQuit, CmdExit}
HintCmds == {CmdH, CmdHelp, CmdHint}
SaveCmds == {CmdW, CmdWrite, CmdSave}
FlashCmds == {CmdF, CmdFlash}
TogoCmds == {CmdN, CmdNum, CmdTogo}
KnownCmds ==
  QuitCmds \cup HintCmds \cup SaveCmds \cup FlashCmds \cup TogoCmds
    \cup {CmdWq, CmdTypo, CmdSkip, CmdRevise}

\* `guess.starts_with(':')`
IsCommand(g) == StartsWith(g, <<":">>)

\* the lines the user may type at a prompt
GuessLines ==
  {DefOf(k) : k \in 1..(NumCards + 1)}
    \cup {TermOf(1), <<" ">> \o DefOf(1) \o <<" ">>, <<"z">>, <<>>}
CommandLines ==
  KnownCmds \cup {<<":", "x">>, <<":", "h", "x">>, <<" ">> \o CmdTypo}
Lines == GuessLines \cup CommandLines

\* ------------------------------------------------------------------ Card
\* Card::incr
incr(c) == [c EXCEPT !.cnt = @ + 1]

\* Card::decr
decr(c) == [c EXCEPT !.cnt = IF @ = 0 THEN 0 ELSE @ - 1]

\* Card::lok, the mastery classifier
lok(c) ==
  IF c.cnt >= Threshold THEN "Done"
  ELSE IF c.cnt = 0 THEN "New" ELSE "Learning"

\* Card::correct
correct(c) == c.def

\* Card::swap
swap(c) == [c EXCEPT !.trm = c.def, !.def = c.trm]

NewCard(k, n) == [id |-> k, trm |-> TermOf(k), def |-> DefOf(k), cnt |-> n]

\* ------------------------------------------------------------ deck helpers
Ids(S) == {c.id : c \in S}
Range(s) == {s[k] : k \in 1..Len(s)}
DoneCount(d) == Cardinality({k \in 1..Len(d) : lok(d[k]) = "Done"})
NotDoneCount(d) == Cardinality({k \in 1..Len(d) : lok(d[k]) # "Done"})
DoneIds(d) == {d[k].id : k \in {j \in 1..Len(d) : lok(d[j]) = "Done"}}
CardById(d, id) == CHOOSE c \in Range(d) : c.id = id
CntOf(d, id) == CardById(d, id).cnt

\* all orders of the deck d
Shuffles(d) ==
  {[k \in 1..Len(d) |-> d[p[k]]] :
     p \in {q \in [1..Len(d) -> 1..Len(d)] :
              \A a, b \in 1..Len(d) : a # b => q[a] # q[b]}}

\* `v.get(x as usize)` is Some: a negative i32 cast to usize is far beyond
\* any deck length, so the lookup succeeds exactly for 0 <= x < v.len()
GetIsSome(d, x) == x >= 0 /\ x < Len(d)

\* v[k] for the zero-based index k of the source
At(d, k) == d[k + 1]

\* ----------------------------------------------------------------- state
VARIABLES
  v,             \* the deck: sequence of cards, owned by `run`
  pc,            \* control point: "swap", "both" (the swaps of `run`), "run"
                 \*   (loop head of `run`), "loop" (loop head of `question`),
                 \*   "read" (prompt shown, waiting in readline), "finished"
                 \*   (run returned Ok), "failed" (run returned Err),
                 \*   "exited" (process::exit(0))
  i,             \* cursor of `question` (zero-based)
  prev_valid_i,  \* `prev_valid_i` of `question`, -1 while not yet assigned
  len,           \* `len` of `question`: cards not Done at pass start
  quiet,         \* whether the last entry of the line editor's history is
                 \*   one after which the prompt leaves out the question
  guess,         \* the line read for the current card (untrimmed), NoLine
                 \*   while none has been read
  shown,         \* whether the last prompt contained the question text
  out,           \* the last notice printed by `question`
  save_res,      \* result of the state::save_prog call made for the last
                 \*   input line: "none" (no call), "ok" or "err"
  rm_called,     \* whether state::rm_prog has been called
  done0,         \* history: ids of the cards Done when the pass started
  asked,         \* history: ids of the cards prompted in this pass
  answered,      \* history: ids of the cards that got an advancing input
                 \*   (guess, :flash, :skip) in this pass, in order
  prev_ans,      \* history: id of the last card that got a guess or :flash
                 \*   in this pass, 0 if none
  passes,        \* history: calls of `question` so far, counted in
                 \*   SpecCorrect only
  hint_s,        \* the argument of `hint` (SpecHint)
  hint_r         \* the result of `hint`, NoLine before the call (SpecHint)

vars == <<v, pc, i, prev_valid_i, len, quiet, guess, shown, out, save_res,
          rm_called, done0, asked, answered, prev_ans, passes, hint_s,
          hint_r>>

\* what the session leaves alone
aux_vars == <<passes, hint_s, hint_r>>
hint_vars == <<hint_s, hint_r>>

NoLine == <<"none">>

\* a notice printed by `question`: its kind and up to two arguments
Notice(kind, a, b) == [kind |-> kind, a |-> a, b |-> b]

\* decks as read by `init`: cards in file order, any restored progress
InitDecks(n) ==
  {[k \in 1..n |-> NewCard(k, f[k])] : f \in [1..n -> 0..Threshold]}

InitWith(decks, start) ==
  /\ v \in decks
  /\ pc = start
  /\ i = 0
  /\ prev_valid_i = -1
  /\ len = 0
  /\ quiet = FALSE
  /\ guess = NoLine
  /\ shown = FALSE
  /\ out = Notice("none", 0, 0)
  /\ save_res = "none"
  /\ rm_called = FALSE
  /\ done0 = {}
  /\ asked = {}
  /\ answered = <<>>
  /\ prev_ans = 0
  /\ passes = 0
  /\ hint_r = <<"none">>

\* `run` at its while loop, with conf.card_swap() and conf.ask_both() false
Init == InitWith(InitDecks(NumCards), "run") /\ hint_s = <<>>

\* the same on a deck of one card more
InitLong == InitWith(InitDecks(NumCards + 1), "run") /\ hint_s = <<>>

\* `run` right after `init`, before the two swaps
InitSetup == InitWith(InitDecks(NumCards), "swap") /\ hint_s = <<>>

\* ------------------------------------------------------------------- run
\* variant: only the first card of the deck is swapped
swap_first_card(d) == [k \in 1..Len(d) |-> IF k = 1 THEN swap(d[k]) ELSE d[k]]

\* swap_cards
swap_cards(d) == [k \in 1..Len(d) |-> swap(d[k])]

\* randomly_swap_cards: each card swapped or not by fastrand::bool()
randomly_swap_cards(d) ==
  {[k \in 1..Len(d) |-> IF b[k] THEN swap(d[k]) ELSE d[k]] :
     b \in [1..Len(d) -> BOOLEAN]}

pass_vars == <<i, prev_valid_i, len, quiet, guess, shown, out, done0,
               asked, answered, prev_ans>>

\* `if conf.card_swap() { swap_cards(&mut v) }`
CardSwap ==
  /\ pc = "swap"
  /\ \E card_swap \in BOOLEAN :
       v' = IF card_swap THEN swap_cards(v) ELSE v
  /\ pc' = "both"
  /\ UNCHANGED <<pass_vars, save_res, rm_called>>
  /\ UNCHANGED aux_vars

\* `if conf.ask_both() { randomly_swap_cards(&mut v) }`
AskBoth ==
  /\ pc = "both"
  /\ \E ask_both \in BOOLEAN :
       IF ask_both THEN v' \in randomly_swap_cards(v) ELSE v' = v
  /\ pc' = "run"
  /\ UNCHANGED <<pass_vars, save_res, rm_called>>
  /\ UNCHANGED aux_vars

\* variant: the loop of `run` stops one card early
RunCondOffByOne(d) == DoneCount(d) < Len(d) - 1

\* the condition of the while loop of `run`
RunCond(d) == DoneCount(d) < Len(d)

\* the deck handed to `question`: shuffled unless conf.no_shuffle()
Shuffled(d, no_shuffle) == IF no_shuffle THEN {d} ELSE Shuffles(d)

\* one iteration of the while loop of `run` up to the entry of the loop of
\* `question`: shuffle, count the cards to learn, create the line editor
EnterPass ==
  /\ pc = "run"
  /\ RunCond(v)
  /\ \E no_shuffle \in BOOLEAN : v' \in Shuffled(v, no_shuffle)
  /\ len' = NotDoneCount(v')
  /\ out' = Notice("Start", len', 0)
  /\ quiet' = FALSE
  /\ guess' = NoLine
  /\ shown' = FALSE
  /\ save_res' = "none"
  /\ prev_valid_i' = -1
  /\ i' = 0
  /\ pc' = "loop"
  /\ done0' = DoneIds(v')
  /\ asked' = {}
  /\ answered' = <<>>
  /\ prev_ans' = 0
  /\ UNCHANGED rm_called

StartPass == EnterPass /\ UNCHANGED aux_vars

\* the same step with the call of `question` counted
CountedPass == EnterPass /\ passes' = passes + 1 /\ UNCHANGED hint_vars

\* DefaultEditor::new() fails: `question` returns Err, and so does `run`
EditorFail ==
  /\ pc = "run"
  /\ RunCond(v)
  /\ \E no_shuffle \in BOOLEAN : v' \in Shuffled(v, no_shuffle)
  /\ pc' = "failed"
  /\ UNCHANGED <<pass_vars, save_res, rm_called>>
  /\ UNCHANGED aux_vars

\* the loop of `run` is left: state::rm_prog is called and succeeds
Finish ==
  /\ pc = "run"
  /\ ~RunCond(v)
  /\ rm_called' = TRUE
  /\ pc' = "finished"
  /\ UNCHANGED <<v, pass_vars, save_res>>
  /\ UNCHANGED aux_vars

\* the loop of `run` is left: state::rm_prog is called and fails
RmFail ==
  /\ pc = "run"
  /\ ~RunCond(v)
  /\ rm_called' = TRUE
  /\ pc' = "failed"
  /\ UNCHANGED <<v, pass_vars, save_res>>
  /\ UNCHANGED aux_vars

\* -------------------------------------------------------------- question
\* variant: the comparison of the loop head inverted
IsSkippedInverted(c) == lok(c) # "Done"

\* variant: every card with some progress is passed over
IsSkippedStarted(c) == lok(c) # "New"

\* `if item.lok() == Lok::Done`: the card is passed over without a prompt
IsSkipped(c) == lok(c) = "Done"

\* the closure applied to the last history entry when the prompt is built:
\* after such an entry the prompt leaves out the question text
Suppress(he) ==
  \/ StartsWith(he, CmdH)
  \/ he = CmdTypo
  \/ he = CmdN
  \/ he = CmdNum
  \/ he = CmdTogo

\* rl.add_history_entry(&guess): the editor does not record an empty line,
\* so the last entry stays what it was.  The history is only ever read
\* through Suppress of its last entry, which is what the model keeps.
AddHistory(q, line) == IF line = <<>> THEN q ELSE Suppress(line)

\* loop head with a Done card: `i += 1; continue`
SkipDone ==
  /\ pc = "loop"
  /\ i < Len(v)
  /\ IsSkipped(At(v, i))
  /\ i' = i + 1
  /\ UNCHANGED <<v, pc, prev_valid_i, len, quiet, guess, shown, out, save_res,
                 rm_called, done0, asked, answered, prev_ans>>
  /\ UNCHANGED aux_vars

\* loop head with a card to learn: set prev_valid_i, build and show the prompt
Prompt ==
  /\ pc = "loop"
  /\ i < Len(v)
  /\ ~IsSkipped(At(v, i))
  /\ prev_valid_i' = i - 1
  /\ shown' = ~quiet
  /\ guess' = NoLine
  /\ save_res' = "none"
  /\ asked' = asked \cup {At(v, i).id}
  /\ pc' = "read"
  /\ UNCHANGED <<v, i, len, quiet, out, rm_called, done0, answered, prev_ans>>
  /\ UNCHANGED aux_vars

\* `while i < v.len()` is false: `question` returns Ok(())
PassEnd ==
  /\ pc = "loop"
  /\ i >= Len(v)
  /\ pc' = "run"
  /\ UNCHANGED <<v, pass_vars, save_res, rm_called>>
  /\ UNCHANGED aux_vars

\* readline returns `line`, which is added to the history
Read(line) ==
  /\ pc = "read"
  /\ guess' = line
  /\ quiet' = AddHistory(quiet, line)
  /\ UNCHANGED aux_vars

\* readline fails (end of input, interrupt): `question` returns Err
ReadlineFail ==
  /\ pc = "read"
  /\ pc' = "failed"
  /\ UNCHANGED <<v, pass_vars, save_res, rm_called>>
  /\ UNCHANGED aux_vars

\* variant: the quit arm prints its notice but does not leave the loop
QuitNoExit ==
  \E line \in Lines :
    /\ Read(line)
    /\ Trim(line) \in QuitCmds
    /\ out' = Notice("Exit", 0, 0)
    /\ save_res' = "none"
    /\ pc' = "loop"
    /\ UNCHANGED <<v, i, prev_valid_i, len, shown, rm_called, done0, asked,
                   answered, prev_ans>>

\* ":q" | ":quit" | ":exit"
Quit ==
  \E line \in Lines :
    /\ Read(line)
    /\ Trim(line) \in QuitCmds
    /\ out' = Notice("Exit", 0, 0)
    /\ save_res' = "none"
    /\ pc' = "exited"
    /\ UNCHANGED <<v, i, prev_valid_i, len, shown, rm_called, done0, asked,
                   answered, prev_ans>>

\* ":h" | ":help" | ":hint"
Hint ==
  \E line \in Lines :
    /\ Read(line)
    /\ Trim(line) \in HintCmds
    /\ out' = Notice("Hint", At(v, i).id, 0)
    /\ save_res' = "none"
    /\ pc' = "loop"
    /\ UNCHANGED <<v, i, prev_valid_i, len, shown, rm_called, done0, asked,
                   answered, prev_ans>>

\* ":w" | ":write" | ":save", state::save_prog returns Ok
SaveOk ==
  \E line \in Lines :
    /\ Read(line)
    /\ Trim(line) \in SaveCmds
    /\ save_res' = "ok"
    /\ pc' = "loop"
    /\ UNCHANGED <<v, i, prev_valid_i, len, shown, out, rm_called, done0,
                   asked, answered, prev_ans>>

\* ":w" | ":write" | ":save", state::save_prog returns Err: the `?`
\* returns it from `question`, and the `?` of `run` returns it from `run`
SaveFail ==
  \E line \in Lines :
    /\ Read(line)
    /\ Trim(line) \in SaveCmds
    /\ save_res' = "err"
    /\ pc' = "failed"
    /\ UNCHANGED <<v, i, prev_valid_i, len, shown, out, rm_called, done0,
                   asked, answered, prev_ans>>

\* ":wq", state::save_prog returns Ok: exit(0)
WqOk ==
  \E line \in Lines :
    /\ Read(line)
    /\ Trim(line) = CmdWq
    /\ save_res' = "ok"
    /\ out' = Notice("Exit", 0, 0)
    /\ pc' = "exited"
    /\ UNCHANGED <<v, i, prev_valid_i, len, shown, rm_called, done0, asked,
                   answered, prev_ans>>

\* ":wq", state::save_prog returns Err
WqFail ==
  \E line \in Lines :
    /\ Read(line)
    /\ Trim(line) = CmdWq
    /\ save_res' = "err"
    /\ pc' = "failed"
    /\ UNCHANGED <<v, i, prev_valid_i, len, shown, out, rm_called, done0,
                   asked, answered, prev_ans>>

\* the card ":typo" credits, 0 for none
TypoTarget(d, cur, prev) ==
  IF cur > 0
    THEN IF GetIsSome(d, prev) THEN At(d, prev).id ELSE 0
    ELSE 0

\* variant: ":typo" debits the card before the cursor
TypoDebits ==
  \E line \in Lines :
    /\ Read(line)
    /\ Trim(line) = CmdTypo
    /\ LET t == TypoTarget(v, i, prev_valid_i) IN
         /\ out' = Notice("Typo", t, 0)
         /\ IF t # 0
              THEN v' = [v EXCEPT ![prev_valid_i + 1] = decr(@)]
              ELSE v' = v
    /\ save_res' = "none"
    /\ pc' = "loop"
    /\ UNCHANGED <<i, prev_valid_i, len, shown, rm_called, done0, asked,
                   answered, prev_ans>>

\* ":typo"
Typo ==
  \E line \in Lines :
    /\ Read(line)
    /\ Trim(line) = CmdTypo
    /\ LET t == TypoTarget(v, i, prev_valid_i) IN
         /\ out' = Notice("Typo", t, 0)
         /\ IF t # 0
              THEN /\ At(v, prev_valid_i).cnt < MaxCnt
                   /\ v' = [v EXCEPT ![prev_valid_i + 1] = incr(@)]
              ELSE v' = v
    /\ save_res' = "none"
    /\ pc' = "loop"
    /\ UNCHANGED <<i, prev_valid_i, len, shown, rm_called, done0, asked,
                   answered, prev_ans>>

\* variant: ":skip" counts as a miss
SkipDebits ==
  \E line \in Lines :
    /\ Read(line)
    /\ Trim(line) = CmdSkip
    /\ out' = Notice("Skip", At(v, i).id, 0)
    /\ v' = [v EXCEPT ![i + 1] = decr(@)]
    /\ i' = i + 1
    /\ answered' = Append(answered, At(v, i).id)
    /\ save_res' = "none"
    /\ pc' = "loop"
    /\ UNCHANGED <<prev_valid_i, len, shown, rm_called, done0, asked,
                   prev_ans>>

\* ":skip"
Skip ==
  \E line \in Lines :
    /\ Read(line)
    /\ Trim(line) = CmdSkip
    /\ out' = Notice("Skip", At(v, i).id, 0)
    /\ i' = i + 1
    /\ answered' = Append(answered, At(v, i).id)
    /\ UNCHANGED prev_ans
    /\ save_res' = "none"
    /\ pc' = "loop"
    /\ UNCHANGED <<v, prev_valid_i, len, shown, rm_called, done0, asked>>

\* variant: `continue` in place of `break`, the pass goes on
ReviseContinue ==
  \E line \in Lines :
    /\ Read(line)
    /\ Trim(line) = CmdRevise
    /\ out' = Notice("Revise", 0, 0)
    /\ save_res' = "none"
    /\ pc' = "loop"
    /\ UNCHANGED <<v, i, prev_valid_i, len, shown, rm_called, done0, asked,
                   answered, prev_ans>>

\* ":revise": `break`, `question` returns Ok(())
Revise ==
  \E line \in Lines :
    /\ Read(line)
    /\ Trim(line) = CmdRevise
    /\ out' = Notice("Revise", 0, 0)
    /\ save_res' = "none"
    /\ pc' = "run"
    /\ UNCHANGED <<v, i, prev_valid_i, len, shown, rm_called, done0, asked,
                   answered, prev_ans>>

\* variant: ":flash" shows the card without crediting it
FlashNoCredit ==
  \E line \in Lines :
    /\ Read(line)
    /\ Trim(line) \in FlashCmds
    /\ out' = Notice("Flash", At(v, i).id, 0)
    /\ i' = i + 1
    /\ answered' = Append(answered, At(v, i).id)
    /\ prev_ans' = At(v, i).id
    /\ save_res' = "none"
    /\ pc' = "loop"
    /\ UNCHANGED <<v, prev_valid_i, len, shown, rm_called, done0, asked>>

\* ":f" | ":flash"
Flash ==
  \E line \in Lines :
    /\ Read(line)
    /\ Trim(line) \in FlashCmds
    /\ out' = Notice("Flash", At(v, i).id, 0)
    /\ v' = [v EXCEPT ![i + 1] = incr(@)]
    /\ i' = i + 1
    /\ answered' = Append(answered, At(v, i).id)
    /\ prev_ans' = At(v, i).id
    /\ save_res' = "none"
    /\ pc' = "loop"
    /\ UNCHANGED <<prev_valid_i, len, shown, rm_called, done0, asked>>

\* ":n" | ":num" | ":togo"
Togo ==
  \E line \in Lines :
    /\ Read(line)
    /\ Trim(line) \in TogoCmds
    /\ out' = Notice("Togo", len, prev_valid_i + 1)
    /\ save_res' = "none"
    /\ pc' = "loop"
    /\ UNCHANGED <<v, i, prev_valid_i, len, shown, rm_called, done0, asked,
                   answered, prev_ans>>

\* variant: an unknown command is taken for a wrong guess
UnknownAsWrong ==
  \E line \in Lines :
    /\ Read(line)
    /\ IsCommand(Trim(line))
    /\ Trim(line) \notin KnownCmds
    /\ out' = Notice("Unknown", 0, 0)
    /\ v' = [v EXCEPT ![i + 1] = decr(@)]
    /\ i' = i + 1
    /\ save_res' = "none"
    /\ pc' = "loop"
    /\ UNCHANGED <<prev_valid_i, len, shown, rm_called, done0, asked,
                   answered, prev_ans>>

\* any other line starting with ':'
Unknown ==
  \E line \in Lines :
    /\ Read(line)
    /\ IsCommand(Trim(line))
    /\ Trim(line) \notin KnownCmds
    /\ out' = Notice("Unknown", 0, 0)
    /\ save_res' = "none"
    /\ pc' = "loop"
    /\ UNCHANGED <<v, i, prev_valid_i, len, shown, rm_called, done0, asked,
                   answered, prev_ans>>

\* variant: a correct guess moves on without crediting the card
KnewNoCredit ==
  \E line \in Lines :
    /\ Read(line)
    /\ ~IsCommand(Trim(line))
    /\ Trim(line) = correct(At(v, i))
    /\ out' = Notice("Knew", At(v, i).id, 0)
    /\ i' = i + 1
    /\ answered' = Append(answered, At(v, i).id)
    /\ prev_ans' = At(v, i).id
    /\ save_res' = "none"
    /\ pc' = "loop"
    /\ UNCHANGED <<v, prev_valid_i, len, shown, rm_called, done0, asked>>

\* `guess == item.correct()`
Knew ==
  \E line \in Lines :
    /\ Read(line)
    /\ ~IsCommand(Trim(line))
    /\ Trim(line) = correct(At(v, i))
    /\ out' = Notice("Knew", At(v, i).id, 0)
    /\ v' = [v EXCEPT ![i + 1] = incr(@)]
    /\ i' = i + 1
    /\ answered' = Append(answered, At(v, i).id)
    /\ prev_ans' = At(v, i).id
    /\ save_res' = "none"
    /\ pc' = "loop"
    /\ UNCHANGED <<prev_valid_i, len, shown, rm_called, done0, asked>>

\* variant: a miss is asked again in place, the cursor stays
WrongRetry ==
  \E line \in Lines :
    /\ Read(line)
    /\ ~IsCommand(Trim(line))
    /\ Trim(line) # correct(At(v, i))
    /\ out' = Notice("Wrong", At(v, i).id, 0)
    /\ v' = [v EXCEPT ![i + 1] = decr(@)]
    /\ answered' = Append(answered, At(v, i).id)
    /\ prev_ans' = At(v, i).id
    /\ save_res' = "none"
    /\ pc' = "loop"
    /\ UNCHANGED <<i, prev_valid_i, len, shown, rm_called, done0, asked>>

\* variant: a miss is decided on the line as typed, blanks included
WrongUntrimmed ==
  \E line \in Lines :
    /\ Read(line)
    /\ ~IsCommand(Trim(line))
    /\ line # correct(At(v, i))
    /\ out' = Notice("Wrong", At(v, i).id, 0)
    /\ v' = [v EXCEPT ![i + 1] = decr(@)]
    /\ i' = i + 1
    /\ answered' = Append(answered, At(v, i).id)
    /\ prev_ans' = At(v, i).id
    /\ save_res' = "none"
    /\ pc' = "loop"
    /\ UNCHANGED <<prev_valid_i, len, shown, rm_called, done0, asked>>

\* variant: a miss subtracts one from the counter without the floor
WrongNoFloor ==
  \E line \in Lines :
    /\ Read(line)
    /\ ~IsCommand(Trim(line))
    /\ Trim(line) # correct(At(v, i))
    /\ out' = Notice("Wrong", At(v, i).id, 0)
    /\ v' = [v EXCEPT ![i + 1].cnt = @ - 1]
    /\ i' = i + 1
    /\ answered' = Append(answered, At(v, i).id)
    /\ prev_ans' = At(v, i).id
    /\ save_res' = "none"
    /\ pc' = "loop"
    /\ UNCHANGED <<prev_valid_i, len, shown, rm_called, done0, asked>>

\* any other guess
Wrong ==
  \E line \in Lines :
    /\ Read(line)
    /\ ~IsCommand(Trim(line))
    /\ Trim(line) # correct(At(v, i))
    /\ out' = Notice("Wrong", At(v, i).id, 0)
    /\ v' = [v EXCEPT ![i + 1] = decr(@)]
    /\ i' = i + 1
    /\ answered' = Append(answered, At(v, i).id)
    /\ prev_ans' = At(v, i).id
    /\ save_res' = "none"
    /\ pc' = "loop"
    /\ UNCHANGED <<prev_valid_i, len, shown, rm_called, done0, asked>>

Next ==
  \/ StartPass
  \/ EditorFail
  \/ Finish
  \/ RmFail
  \/ SkipDone
  \/ Prompt
  \/ PassEnd
  \/ ReadlineFail
  \/ Quit
  \/ Hint
  \/ SaveOk
  \/ SaveFail
  \/ WqOk
  \/ WqFail
  \/ Typo
  \/ Skip
  \/ Revise
  \/ Flash
  \/ Togo
  \/ Unknown
  \/ Knew
  \/ Wrong

Spec == Init /\ [][Next]_vars

SpecLong == InitLong /\ [][Next]_vars

\* the whole of `run`, the two swaps of the deck included
NextSetup == CardSwap \/ AskBoth \/ Next

SpecSetup == InitSetup /\ [][NextSetup]_vars

\* the two swaps of `run` alone, on a deck of one card more
InitSwap == InitWith(InitDecks(NumCards + 1), "swap") /\ hint_s = <<>>

NextSwap == CardSwap \/ AskBoth

SpecSwap == InitSwap /\ [][NextSwap]_vars

\* a user who answers every prompt with the correct guess, and an
\* environment in which the editor and readline do not fail; the program
\* runs on as long as it can
NextCorrect ==
  \/ CountedPass
  \/ SkipDone
  \/ Prompt
  \/ PassEnd
  \/ Knew
  \/ Finish
  \/ RmFail

SpecCorrect == InitLong /\ [][NextCorrect]_vars /\ WF_vars(NextCorrect)

\* ------------------------------------------------------------------ hint
\* characters of the strings given to `hint`: an ASCII letter, a letter of
\* two bytes in UTF-8 (written by its name) and the mask itself
HintChars == {"a", "eacute", "_"}

\* all strings over the set S of length n
RECURSIVE StringsOfLen(_, _)
StringsOfLen(S, n) ==
  IF n = 0 THEN {<<>>}
  ELSE {<<ch>> \o t : ch \in S, t \in StringsOfLen(S, n - 1)}

HintStrings == UNION {StringsOfLen(HintChars, n) : n \in 0..MaxHintLen}

\* length of the UTF-8 encoding of a character, of a string
Utf8Len(ch) == IF ch \in {"a", "_"} THEN 1 ELSE 2
RECURSIVE ByteLen(_)
ByteLen(s) == IF s = <<>> THEN 0 ELSE Utf8Len(Head(s)) + ByteLen(Tail(s))

\* chars().take(n)
Take(s, n) == SubSeq(s, 1, IF n < Len(s) THEN n ELSE Len(s))

\* chars().skip(n).map(|_| '_')
MaskFrom(s, n) == [k \in 1..(IF n < Len(s) THEN Len(s) - n ELSE 0) |-> "_"]

\* variant: the half is taken of the length in bytes (`s.len() / 2`)
hint_by_bytes(s) ==
  LET n == ByteLen(s) \div 2 IN Take(s, n) \o MaskFrom(s, n)

\* hint
hint(s) ==
  LET n == Len(s) \div 2 IN Take(s, n) \o MaskFrom(s, n)

\* a call of `hint` on one string
InitHint ==
  /\ InitWith({[k \in 1..NumCards |-> NewCard(k, 0)]}, "hint")
  /\ hint_s \in HintStrings

CallHint ==
  /\ pc = "hint"
  /\ hint_r' = hint(hint_s)
  /\ pc' = "hinted"
  /\ UNCHANGED <<v, pass_vars, save_res, rm_called, passes, hint_s>>

NextHint == CallHint

SpecHint == InitHint /\ [][NextHint]_vars

TypeOK ==
  /\ pc \in {"hint", "hinted", "swap", "both", "run", "loop", "read", "finished", "failed",
             "exited"}
  /\ i \in 0..Len(v)
  /\ Len(v) \in {NumCards, NumCards + 1}

\* ---------------------------------------------------------------- claims
\* a step of `question` that read a line at the prompt
ReadStep == pc = "read" /\ guess' # NoLine

\* the card under the cursor
Cur == At(v, i)

InPass == pc \in {"loop", "read"}

\* C1: a card that is Done when a pass starts is never prompted in that
\* pass and gets no input: the prompt is never open on such a card, and no
\* such card is among the cards asked or answered in the pass.
C1_DoneNeverPrompted ==
  /\ asked \cap done0 = {}
  /\ Range(answered) \cap done0 = {}
  /\ pc = "read" => Cur.id \notin done0

\* a pass whose cursor went past a card Done at its start to prompt another
C1_Witness ==
  /\ pc = "read"
  /\ \E k \in 0..(i - 1) : At(v, k).id \in done0

\* C2: the controller never ends the run below the threshold: rm_prog is
\* called and `run` returns Ok only with every card Done, and from the head
\* of the loop of `run` with a card not Done the only step is into
\* `question` again (a new pass, or the failure of creating its editor).
C2_NoEndBelowThreshold ==
  /\ [](rm_called => \A k \in 1..Len(v) : lok(v[k]) = "Done")
  /\ [](pc = "finished" => rm_called)
  /\ [][(pc = "run" /\ \E k \in 1..Len(v) : lok(v[k]) # "Done")
          => (pc' = "loop" /\ i' = 0 /\ ~rm_called') \/ pc' = "failed"]_vars

\* the run has ended after a pass in which the last card was answered
C2_Witness ==
  /\ pc = "finished"
  /\ rm_called
  /\ answered # <<>>

\* C3: a plain guess credits the current card one increment when the
\* trimmed line equals correct(), else debits one decrement with floor
\* zero; the cursor advances by one and nothing else in the deck changes.
C3_PlainGuess ==
  [][(ReadStep /\ ~IsCommand(Trim(guess')))
       => /\ i' = i + 1
          /\ v' = [v EXCEPT ![i + 1].cnt =
                     IF Trim(guess') = Cur.def THEN @ + 1
                     ELSE IF @ = 0 THEN 0 ELSE @ - 1]]_vars

\* a guess typed with surrounding blanks was accepted as correct
C3_Witness ==
  /\ pc = "loop"
  /\ guess = <<" ">> \o DefOf(1) \o <<" ">>
  /\ out = Notice("Knew", 1, 0)
  /\ i > 0
  /\ At(v, i - 1).cnt = 1

\* C4: no counter is ever negative, a miss on a card at zero leaves it at
\* zero, and no step changes any card's counter by more than one.
C4_Floor ==
  /\ [](\A k \in 1..Len(v) : v[k].cnt >= 0)
  /\ [][\A id \in {v[k].id : k \in 1..Len(v)} :
          /\ CntOf(v', id) - CntOf(v, id) \in {-1, 0, 1}
          /\ (ReadStep /\ ~IsCommand(Trim(guess'))
                /\ Trim(guess') # Cur.def /\ Cur.id = id /\ Cur.cnt = 0)
               => CntOf(v', id) = 0]_vars

\* a miss has just been recorded and the card's counter is at the floor
C4_Witness ==
  /\ pc = "loop"
  /\ out.kind = "Wrong"
  /\ i > 0
  /\ At(v, i - 1).id = out.a
  /\ At(v, i - 1).cnt = 0

\* position (one-based) of the card `id` in the deck d, 0 if absent
PosOf(d, id) ==
  IF \E k \in 1..Len(d) : d[k].id = id
    THEN CHOOSE k \in 1..Len(d) : d[k].id = id
    ELSE 0

\* the deck d with the counter of card `id` one higher (d itself for id 0)
Credited(d, id) ==
  [k \in 1..Len(d) |-> IF d[k].id = id THEN [d[k] EXCEPT !.cnt = @ + 1]
                       ELSE d[k]]

\* C5: a failing mid-session save is reported inline: the pass goes on at
\* the same card with the cursor and every counter unchanged.
C5_SaveFailureContinues ==
  [][(ReadStep /\ Trim(guess') \in SaveCmds /\ save_res' = "err")
       => (pc' = "loop" /\ i' = i /\ v' = v)]_vars

\* C6: ":typo" credits exactly the last card that got a substantive answer
\* (a guess or :flash) in this pass, and changes no counter when there is
\* none; a card passed over as Done or with :skip is never credited.
C6_TypoCreditsLastAnswered ==
  [][(ReadStep /\ Trim(guess') = CmdTypo)
       => (v' = Credited(v, prev_ans) /\ i' = i)]_vars

\* C7: ":typo" at the prompt that follows a correct guess credits the card
\* just answered once more, moves no cursor and changes no other counter.
C7_TypoAfterCorrectGuess ==
  [][(ReadStep /\ out.kind = "Knew" /\ Trim(guess') = CmdTypo)
       => (v' = Credited(v, out.a) /\ i' = i)]_vars

\* no id occurs twice in the sequence s
NoDuplicates(s) == \A a, b \in 1..Len(s) : a # b => s[a] # s[b]

\* C8: within a pass the cursor never decreases, a plain guess moves it
\* past the answered card, and no card gets more than one answer.
C8_NoRevisit ==
  /\ [](InPass => NoDuplicates(answered))
  /\ [](InPass => \A a \in 1..Len(answered) :
                    PosOf(v, answered[a]) \in 1..i)
  /\ [][(InPass /\ pc' \in {"loop", "read"}) => i' >= i]_vars
  /\ [][(ReadStep /\ ~IsCommand(Trim(guess')))
          => (i' = i + 1 /\ answered' = Append(answered, Cur.id))]_vars

\* a pass in which every card of the deck was answered once, the last
\* of them with a wrong guess
C8_Witness ==
  /\ pc = "loop"
  /\ i = Len(v)
  /\ Len(answered) = Len(v)
  /\ out.kind = "Wrong"

\* C9: help/hint, a successful save, the progress query and an unknown
\* command change nothing: deck, counters and cursor stay, and the loop is
\* back at its head on the same card, which is prompted again.
C9_NoStateChange ==
  [][(ReadStep
        /\ \/ Trim(guess') \in HintCmds \cup TogoCmds
           \/ Trim(guess') \in SaveCmds /\ save_res' = "ok"
           \/ IsCommand(Trim(guess')) /\ Trim(guess') \notin KnownCmds)
       => /\ v' = v
          /\ i' = i
          /\ pc' = "loop"
          /\ i' < Len(v')
          /\ ~IsSkipped(At(v', i'))]_vars

\* an unknown command has just been answered with its notice
C9_Witness ==
  /\ pc = "loop"
  /\ guess = <<":", "h", "x">>
  /\ out.kind = "Unknown"
  /\ answered # <<>>

\* C10: ":revise" ends the pass only: `question` returns at once with the
\* deck as it was, and `run`, back at its loop head with a card not Done,
\* goes into `question` again.
C10_ReviseEndsPassOnly ==
  /\ [][(ReadStep /\ Trim(guess') = CmdRevise)
          => (pc' = "run" /\ v' = v /\ ~rm_called')]_vars
  /\ [][(pc = "run" /\ out.kind = "Revise" /\ RunCond(v))
          => (pc' = "loop" /\ i' = 0) \/ pc' = "failed"]_vars

\* a pass was left with :revise after an answer, with a card still to learn
C10_Witness ==
  /\ pc = "run"
  /\ out.kind = "Revise"
  /\ answered # <<>>
  /\ RunCond(v)

\* C11: the termination commands end the session at once: after :q, :quit,
\* :exit or :wq no step follows and deck, cursor and rm_prog are untouched;
\* :q makes no call of save_prog, :wq makes one and ends the process
\* whatever its result (exit(0) after Ok, `run` returning Err otherwise).
C11_TerminationImmediate ==
  /\ [][(ReadStep /\ Trim(guess') \in QuitCmds)
          => /\ pc' = "exited"
             /\ save_res' = "none"
             /\ v' = v /\ i' = i /\ rm_called' = rm_called]_vars
  /\ [][(ReadStep /\ Trim(guess') = CmdWq)
          => /\ save_res' \in {"ok", "err"}
             /\ pc' = IF save_res' = "ok" THEN "exited" ELSE "failed"
             /\ v' = v /\ i' = i /\ rm_called' = rm_called]_vars
  /\ [][pc \notin {"exited", "failed", "finished"}]_vars
  /\ [](pc = "exited" => ~rm_called)

\* the process has exited on ":wq" after a save, part of the deck answered
C11_Witness ==
  /\ pc = "exited"
  /\ guess = CmdWq
  /\ save_res = "ok"
  /\ answered # <<>>

\* C12: the progress command reports the number of cards of the deck that
\* are not Done, and the cursor position, wherever in the pass it is given.
C12_TogoReportsRemaining ==
  (pc = "loop" /\ guess # NoLine /\ Trim(guess) \in TogoCmds)
    => (out = Notice("Togo", NotDoneCount(v), i))

\* C13: ":skip" changes no counter and moves the cursor by one; the prompt
\* is never open on a card that already got an advancing input in the pass.
C13_SkipLeavesCounters ==
  /\ [][(ReadStep /\ Trim(guess') = CmdSkip)
          => (v' = v /\ i' = i + 1 /\ pc' = "loop")]_vars
  /\ [](pc = "read" => \A a \in 1..Len(answered) : answered[a] # Cur.id)

\* a card with some progress has just been skipped
C13_Witness ==
  /\ pc = "loop"
  /\ out.kind = "Skip"
  /\ i > 0
  /\ At(v, i - 1).id = out.a
  /\ At(v, i - 1).cnt = 1

\* C14: ":f"/":flash" credits the current card one increment, changes no
\* other card, and moves the cursor by one.
C14_FlashCredits ==
  [][(ReadStep /\ Trim(guess') \in FlashCmds)
       => (v' = Credited(v, Cur.id) /\ i' = i + 1 /\ pc' = "loop")]_vars

\* a card has just become Done through ":flash"
C14_Witness ==
  /\ pc = "loop"
  /\ guess = CmdFlash
  /\ out.kind = "Flash"
  /\ i > 0
  /\ At(v, i - 1).id = out.a
  /\ At(v, i - 1).cnt = Threshold

\* C15: hint(s) has as many characters as s, its first floor(len/2)
\* characters are those of s and all the others are the mask '_'; lengths
\* are in characters, so a two-byte character counts once.
C15_HintShape ==
  pc = "hinted" =>
    /\ Len(hint_r) = Len(hint_s)
    /\ \A k \in 1..Len(hint_s) :
         hint_r[k] = IF k <= Len(hint_s) \div 2 THEN hint_s[k] ELSE "_"

\* hint has run on a string of odd length with two-byte characters
C15_Witness ==
  /\ pc = "hinted"
  /\ hint_s = <<"eacute", "eacute", "a">>
  /\ hint_r = <<"eacute", "_", "_">>

\* C16: with every prompt answered correctly the run ends: `question` is
\* called at most Threshold times, and then the loop of `run` is left with
\* every card Done and rm_prog is called.
C16_CorrectAnswersTerminate ==
  /\ [](passes <= Threshold)
  /\ <>(rm_called /\ \A k \in 1..Len(v) : lok(v[k]) = "Done")

\* the run has ended after exactly Threshold passes of correct answers
C16_Witness ==
  /\ pc = "finished"
  /\ rm_called
  /\ passes = Threshold
  /\ out.kind = "Knew"

\* the card c with term and definition exchanged and nothing else changed
Exchanged(c) == [id |-> c.id, trm |-> c.def, def |-> c.trm, cnt |-> c.cnt]

\* C17: swap_cards exchanges term and definition of every card, keeping
\* the length and the order of the deck, and applied twice it gives back
\* the deck it started from.
C17_SwapInvolution ==
  /\ [][(pc = "swap" /\ v' # v)
          => /\ Len(v') = Len(v)
             /\ \A k \in 1..Len(v) : v'[k] = Exchanged(v[k])]_vars
  /\ [](/\ Len(swap_cards(v)) = Len(v)
        /\ \A k \in 1..Len(v) : swap_cards(v)[k] = Exchanged(v[k])
        /\ swap_cards(swap_cards(v)) = v)

\* `run` has swapped the whole deck
C17_Witness ==
  /\ pc = "both"
  /\ \A k \in 1..Len(v) : v[k].trm = DefOf(v[k].id) /\ v[k].def = TermOf(v[k].id)

\* the line read last in this pass was a help/hint, progress or typo command
AfterInfoCommand ==
  /\ guess # NoLine
  /\ Trim(guess) \in HintCmds \cup TogoCmds \cup {CmdTypo}

\* C18: the prompt leaves out the question text exactly when the previous
\* input of the pass was a help/hint, progress or typo command; the first
\* prompt of a pass and the first prompt on a new card show the question.
C18_PromptOmitsAfterInfo ==
  [][(pc = "loop" /\ pc' = "read") => (shown' = ~AfterInfoCommand)]_vars

\* C19: Done is absorbing: a counter only ever goes down on the card the
\* prompt is open on, which is not Done; so the counter of a Done card
\* never decreases and the number of Done cards never decreases.
C19_DoneAbsorbing ==
  [][/\ \A k \in 1..Len(v) :
          /\ lok(v[k]) = "Done" => CntOf(v', v[k].id) >= v[k].cnt
          /\ CntOf(v', v[k].id) < v[k].cnt
               => (pc = "read" /\ Cur.id = v[k].id /\ lok(Cur) # "Done")
     /\ DoneCount(v') >= DoneCount(v)]_vars

\* a Done card has been credited beyond the threshold in a pass in which
\* another card was answered wrongly
C19_Witness ==
  /\ InPass
  /\ out.kind = "Wrong"
  /\ \E k \in 1..Len(v) : v[k].cnt > Threshold

\* the ids of the cards of d before position n (zero-based) that are not in S
RECURSIVE IdsBefore(_, _, _)
IdsBefore(d, n, S) ==
  IF n = 0 THEN <<>>
  ELSE IF At(d, n - 1).id \in S THEN IdsBefore(d, n - 1, S)
       ELSE Append(IdsBefore(d, n - 1, S), At(d, n - 1).id)

\* C20: when a pass ends by exhaustion, the cards that got an advancing
\* input are exactly the cards not Done at the start of the pass, once
\* each and in deck order, and they are the cards that were prompted.
C20_ExhaustedPassAsksAll ==
  (pc = "loop" /\ i >= Len(v))
    => /\ answered = IdsBefore(v, Len(v), done0)
       /\ asked = Range(answered)

\* a pass has ended by exhaustion with a card passed over as Done and
\* another answered
C20_Witness ==
  /\ pc = "loop"
  /\ i = Len(v)
  /\ done0 # {}
  /\ answered # <<>>

====
